---- MODULE Spec2Model ----
(***************************************************************************)
(* A model of pythreads: the Credentials record (credentials.py), the      *)
(* OAuth2 token flow of Threads (threads.py) and the API facade (api.py).  *)
(*                                                                         *)
(* Time is an integer clock of ticks, TicksPerSecond ticks to the second,  *)
(* so that instants closer than one second apart can be told apart.        *)
(* Optional strings use the string "None"; other optional values are a     *)
(* sequence of length 0 (None) or 1.  A URL is the record of the parts     *)
(* build_graph_api_url puts together.  Each handler is an operator from    *)
(* the object it reads and its inputs (arguments, the provider's           *)
(* responses, the time that passes) to its outcome: the exception raised   *)
(* or the value returned, the URLs built, the requests issued and the      *)
(* credential record as the handler leaves it.                             *)
(***************************************************************************)
EXTENDS Integers, Sequences, FiniteSets, TLC

VARIABLES now, credentials, external_session, session, manage_session, sessions, contexts, last,
          publishing, provider, snapshots

vars ==
    <<now, credentials, external_session, session, manage_session, sessions, contexts, last,
      publishing, provider, snapshots>>

(* ------------------------------ bounds -------------------------------- *)

TicksPerSecond == 2

MaxTime == 2

MaxExpiration == 2

MaxSessions == 2

MaxDepth == 2

MaxContainers == 11

MaxElapsed == 1

MaxAttachments == 3

(* ----------------------------- constants ------------------------------ *)

None == "None"

NoSession == 0

HourSeconds == 3600

MinCarousel == 2

MaxCarousel == 10

Truthy(s) == s # None /\ s # ""

(* int(): truncation toward zero of a / b, for b > 0 *)
TruncDiv(a, b) == IF a >= 0 THEN a \div b ELSE -((-a) \div b)

(* --------------------------- credentials.py --------------------------- *)

Credentials(user_id, scopes, short_lived, access_token, expiration) ==
    [user_id |-> user_id, scopes |-> scopes, short_lived |-> short_lived,
     access_token |-> access_token, expiration |-> expiration]

expires_in(c, t) ==
    LET delta == c.expiration - t
        seconds == TruncDiv(delta, TicksPerSecond)
    IN  IF seconds > 0 THEN seconds ELSE 0

(* expired as soon as the instant of expiration is reached, whatever expires_in says *)
expired_by_instant(c, t) == IF c.expiration <= t THEN TRUE ELSE FALSE

expired(c, t) == IF expires_in(c, t) = 0 THEN TRUE ELSE FALSE

(* datetime.isoformat() of an instant in UTC: the date and time to the second, the
   fraction of a second when there is one, and the offset from UTC *)
isoformat_seconds(d) == [seconds |-> d \div TicksPerSecond, fraction |-> 0, utcoffset |-> 0]

isoformat(d) ==
    [seconds |-> d \div TicksPerSecond, fraction |-> d % TicksPerSecond, utcoffset |-> 0]

(* datetime.fromisoformat(): the instant the date, time and offset name *)
fromisoformat(value) == (value.seconds - value.utcoffset) * TicksPerSecond + value.fraction

(* _JSONEncoder.default: a datetime is written by isoformat(); of the fields of a
   record only expiration is one *)
_JSONEncoder(o) == [key \in DOMAIN o |-> IF key = "expiration" THEN isoformat(o[key]) ELSE o[key]]

(* _JSONDecoder._object_hook: the value of the key expiration is read back *)
_JSONDecoder(obj) ==
    [key \in DOMAIN obj |-> IF key = "expiration" THEN fromisoformat(obj[key]) ELSE obj[key]]

(* json.dumps(asdict(self), cls=_JSONEncoder): a JSON text is modelled by the object it writes *)
to_json(c) == _JSONEncoder(c)

(* the record built from the keys of data: a key missing or unexpected is a TypeError *)
from_json(json_str) ==
    LET data == _JSONDecoder(json_str)
    IN  IF DOMAIN data # {"user_id", "scopes", "short_lived", "access_token", "expiration"}
        THEN [exc |-> "TypeError", ret |-> None]
        ELSE [exc |-> "none",
              ret |-> Credentials(data.user_id, data.scopes, data.short_lived,
                                  data.access_token, data.expiration)]

(* ----------------------------- outcomes ------------------------------- *)

Raise(c, e, urls, reqs) ==
    [exc |-> e, ret |-> None, urls |-> urls, requests |-> reqs, credentials |-> c]

Return(c, v, urls, reqs) ==
    [exc |-> "none", ret |-> v, urls |-> urls, requests |-> reqs, credentials |-> c]

(* ------------------- threads.py: build_graph_api_url ------------------ *)

build_graph_api_url(path, params, access_token) ==
    [path |-> path,
     query |-> IF Truthy(access_token)
               THEN params @@ [access_token |-> access_token]
               ELSE params]

(* ------------------------------- api.py ------------------------------- *)

MEDIA_FIELDS ==
    "children,id,is_quote_post,media_product_type,media_type,media_url,owner,permalink,shortcode,text,thumbnail_url,timestamp,username"

USER_METRIC_TYPES ==
    {"views", "likes", "replies", "reposts", "quotes", "followers_count", "follower_demographics"}

FOLLOWER_DEMOGRAPHIC_TYPES == {"age", "city", "country", "gender"}

PublishingStatus == {"EXPIRED", "ERROR", "FINISHED", "IN_PROGRESS", "PUBLISHED"}

PublishingError ==
    {"FAILED_DOWNLOADING_VIDEO", "FAILED_PROCESSING_AUDIO", "FAILED_PROCESSING_VIDEO",
     "INVALID_ASPEC_RATIO", "INVALID_BIT_RATE", "INVALID_DURATION", "INVALID_FRAME_RATE",
     "INVALID_AUDIO_CHANNELS", "INVALID_AUDIO_CHANNEL_LAYOUT", "UNKNOWN"}

ContainerStatus(id, status, error) == [id |-> id, status |-> status, error |-> error]

Media(type, url) == [type |-> type, url |-> url]

(* _access_token: the token, or ThreadsAccessTokenExpired; the record is only read *)
_access_token_clears(c, t) ==
    IF expired(c, t)
    THEN [exc |-> "ThreadsAccessTokenExpired", ret |-> None,
          credentials |-> [c EXCEPT !.access_token = ""]]
    ELSE [exc |-> "none", ret |-> c.access_token, credentials |-> c]

_access_token(c, t) ==
    IF expired(c, t)
    THEN [exc |-> "ThreadsAccessTokenExpired", ret |-> None, credentials |-> c]
    ELSE [exc |-> "none", ret |-> c.access_token, credentials |-> c]

(* one request on session s; resp is what the transport does with it *)
Request(method, s, url) == [method |-> method, session |-> s, url |-> url]

(* what session.get / session.post raise: the client's own RuntimeError when the
   session refuses the call because it is closed, a ClientError otherwise *)
transport_error(resp) == IF "refused" \in DOMAIN resp THEN "RuntimeError" ELSE "ClientError"

_get(s, c, url, resp) ==
    IF s = NoSession
    THEN Raise(c, "RuntimeError", <<url>>, <<>>)
    ELSE IF resp.error
         THEN Raise(c, transport_error(resp), <<url>>, <<Request("GET", s, url)>>)
         ELSE Return(c, resp.body, <<url>>, <<Request("GET", s, url)>>)

_post(s, c, url, resp) ==
    IF s = NoSession
    THEN Raise(c, "RuntimeError", <<url>>, <<>>)
    ELSE IF resp.error
         THEN Raise(c, transport_error(resp), <<url>>, <<Request("POST", s, url)>>)
         ELSE Return(c, resp.body, <<url>>, <<Request("POST", s, url)>>)

account(s, c, t, user_id, resp) ==
    LET tok == _access_token(c, t)
    IN  IF tok.exc # "none"
        THEN Raise(tok.credentials, tok.exc, <<>>, <<>>)
        ELSE _get(s, tok.credentials,
                  build_graph_api_url(<<user_id>>,
                      [fields |-> "threads_biography,threads_profile_picture_url,username"],
                      tok.ret),
                  resp)

publishing_limit(s, c, t, resp) ==
    LET tok == _access_token(c, t)
    IN  IF tok.exc # "none"
        THEN Raise(tok.credentials, tok.exc, <<>>, <<>>)
        ELSE _get(s, tok.credentials,
                  build_graph_api_url(<<c.user_id, "threads_publishing_limit">>,
                      [fields |-> "config,quota_usage,reply_config,reply_quota_usage"],
                      tok.ret),
                  resp)

container(s, c, t, container_id, resp) ==
    LET tok == _access_token(c, t)
    IN  IF tok.exc # "none"
        THEN Raise(tok.credentials, tok.exc, <<>>, <<>>)
        ELSE _get(s, tok.credentials,
                  build_graph_api_url(<<container_id>>, [fields |-> MEDIA_FIELDS], tok.ret),
                  resp)

thread(s, c, t, thread_id, resp) == container(s, c, t, thread_id, resp)

replies(s, c, t, thread_id, resp) ==
    LET tok == _access_token(c, t)
    IN  IF tok.exc # "none"
        THEN Raise(tok.credentials, tok.exc, <<>>, <<>>)
        ELSE _get(s, tok.credentials,
                  build_graph_api_url(<<thread_id, "replies">>, [fields |-> MEDIA_FIELDS], tok.ret),
                  resp)

insights(s, c, t, thread_id, resp) ==
    LET tok == _access_token(c, t)
    IN  IF tok.exc # "none"
        THEN Raise(tok.credentials, tok.exc, <<>>, <<>>)
        ELSE _get(s, tok.credentials,
                  build_graph_api_url(<<thread_id, "insights">>,
                      [fields |-> "likes,quotes,replies,reposts,views"], tok.ret),
                  resp)

manage_reply(s, c, t, reply_id, hide, resp) ==
    LET tok == _access_token(c, t)
    IN  IF tok.exc # "none"
        THEN Raise(tok.credentials, tok.exc, <<>>, <<>>)
        ELSE _post(s, tok.credentials,
                   build_graph_api_url(<<reply_id, "manage_reply">>, [hide |-> hide], tok.ret),
                   resp)

(* an optional request parameter: present only when the code's `if` adds it *)
Opt(cond, rec) == IF cond THEN rec ELSE <<>>

(* datetime.timestamp() cut to whole seconds by int() *)
timestamp(d) == TruncDiv(d, TicksPerSecond)

(* the breakdown is only checked when one is given *)
breakdown_missing_if_given(requested_metrics, breakdown) ==
    /\ "follower_demographics" \in requested_metrics
    /\ Truthy(breakdown)
    /\ breakdown \notin FOLLOWER_DEMOGRAPHIC_TYPES

(* follower_demographics is requested and breakdown is not one of its types *)
breakdown_missing(requested_metrics, breakdown) ==
    /\ "follower_demographics" \in requested_metrics
    /\ breakdown \notin FOLLOWER_DEMOGRAPHIC_TYPES

user_insights(s, c, t, metrics, since, until, breakdown, resp) ==
    LET tok == _access_token(c, t)
        requested_metrics == {metrics[i] : i \in DOMAIN metrics}
        invalid_metrics == requested_metrics \ USER_METRIC_TYPES
        params == [metric |-> metrics]
                  @@ Opt(since # <<>>, [since |-> timestamp(since[1])])
                  @@ Opt(until # <<>>, [until |-> timestamp(until[1])])
                  @@ Opt(Truthy(breakdown), [breakdown |-> breakdown])
    IN  IF tok.exc # "none"
        THEN Raise(tok.credentials, tok.exc, <<>>, <<>>)
        ELSE IF Cardinality(invalid_metrics) > 0
        THEN Raise(tok.credentials, "ThreadsInvalidParameter", <<>>, <<>>)
        ELSE IF breakdown_missing(requested_metrics, breakdown)
        THEN Raise(tok.credentials, "ThreadsInvalidParameter", <<>>, <<>>)
        ELSE _get(s, tok.credentials,
                  build_graph_api_url(<<c.user_id, "threads_insights">>, params, tok.ret),
                  resp)

threads(s, c, t, since, until, limit, before, after, resp) ==
    LET tok == _access_token(c, t)
        params == [fields |-> MEDIA_FIELDS]
                  @@ Opt(Truthy(since), [since |-> since])
                  @@ Opt(Truthy(until), [until |-> until])
                  @@ Opt(limit # <<>> /\ limit # <<0>>, [limit |-> limit])
                  @@ Opt(Truthy(before), [before |-> before])
                  @@ Opt(Truthy(after), [after |-> after])
    IN  IF tok.exc # "none"
        THEN Raise(tok.credentials, tok.exc, <<>>, <<>>)
        ELSE _get(s, tok.credentials,
                  build_graph_api_url(<<c.user_id, "threads">>, params, tok.ret),
                  resp)

conversation(s, c, t, thread_id, before, after, resp) ==
    LET tok == _access_token(c, t)
        params == [fields |-> MEDIA_FIELDS]
                  @@ Opt(Truthy(before), [before |-> before])
                  @@ Opt(Truthy(after), [after |-> after])
    IN  IF tok.exc # "none"
        THEN Raise(tok.credentials, tok.exc, <<>>, <<>>)
        ELSE _get(s, tok.credentials,
                  build_graph_api_url(<<thread_id, "conversation">>, params, tok.ret),
                  resp)

(* response.get("id") in place of the test for the key *)
post_for_id_get(s, c, url, resp) ==
    IF resp.error
    THEN Raise(c, transport_error(resp), <<url>>, <<Request("POST", s, url)>>)
    ELSE Return(c, IF "id" \in DOMAIN resp.body THEN resp.body.id ELSE None,
                <<url>>, <<Request("POST", s, url)>>)

(* the POST of create_container, create_carousel_container and publish_container
   and the `id` the response must carry; ThreadsResponseError keeps the response *)
post_for_id(s, c, url, resp) ==
    IF resp.error
    THEN Raise(c, transport_error(resp), <<url>>, <<Request("POST", s, url)>>)
    ELSE IF "id" \notin DOMAIN resp.body
    THEN Raise(c, "ThreadsResponseError", <<url>>, <<Request("POST", s, url)>>)
         @@ [response |-> resp.body]
    ELSE Return(c, resp.body.id, <<url>>, <<Request("POST", s, url)>>)

(* the parameters create_container sends; a later assignment replaces an earlier one *)
create_container_params(text, media, reply_control, reply_to_id, is_carousel_item) ==
    Opt(media # <<>> /\ media[1].type = "VIDEO",
        [media_type |-> "VIDEO", video_url |-> media[1].url])
    @@ Opt(media # <<>> /\ media[1].type # "VIDEO" /\ media[1].type = "IMAGE",
           [media_type |-> "IMAGE", image_url |-> media[1].url])
    @@ Opt(is_carousel_item, [is_carousel_item |-> is_carousel_item])
    @@ Opt(Truthy(reply_to_id), [reply_to_id |-> reply_to_id])
    @@ Opt(Truthy(text), [text |-> text, media_type |-> "TEXT"])
    @@ [reply_control |-> reply_control]

create_container(s, c, t, text, media, reply_control, reply_to_id, is_carousel_item, resp) ==
    IF s = NoSession
    THEN Raise(c, "RuntimeError", <<>>, <<>>)
    ELSE LET tok == _access_token(c, t)
             params == create_container_params(text, media, reply_control,
                                               reply_to_id, is_carousel_item)
         IN  IF tok.exc # "none"
             THEN Raise(tok.credentials, tok.exc, <<>>, <<>>)
             ELSE post_for_id(s, tok.credentials,
                      build_graph_api_url(<<c.user_id, "threads">>, params, tok.ret),
                      resp)

(* num_media < 2 or num_media > 10 *)
carousel_count_off_by_one(num_media) == num_media < MinCarousel \/ num_media >= MaxCarousel

carousel_count_invalid(num_media) == num_media < MinCarousel \/ num_media > MaxCarousel

(* any([item.status != FINISHED for item in containers]) *)
first_not_finished(containers) == containers # <<>> /\ containers[1].status # "FINISHED"

any_not_finished(containers) == \E i \in DOMAIN containers : containers[i].status # "FINISHED"

create_carousel_container(s, c, t, containers, text, reply_control, reply_to_id, resp) ==
    IF s = NoSession
    THEN Raise(c, "RuntimeError", <<>>, <<>>)
    ELSE LET tok == _access_token(c, t)
             num_media == Len(containers)
             children == [i \in DOMAIN containers |-> containers[i].id]
             params == Opt(Truthy(reply_to_id), [reply_to_id |-> reply_to_id])
                       @@ Opt(Truthy(text), [text |-> text])
                       @@ [media_type |-> "CAROUSEL", children |-> children,
                           reply_control |-> reply_control]
         IN  IF tok.exc # "none"
             THEN Raise(tok.credentials, tok.exc, <<>>, <<>>)
             ELSE IF carousel_count_invalid(num_media)
             THEN Raise(tok.credentials, "ThreadsInvalidParameter", <<>>, <<>>)
             ELSE IF any_not_finished(containers)
             THEN Raise(tok.credentials, "ThreadsInvalidParameter", <<>>, <<>>)
             ELSE post_for_id(s, tok.credentials,
                      build_graph_api_url(<<c.user_id, "threads">>, params, tok.ret),
                      resp)

(* a status the enum lacks is taken for ERROR *)
get_status_lenient(result) ==
    IF "status" \in DOMAIN result /\ result.status \in PublishingStatus
    THEN result.status
    ELSE "ERROR"

(* result.get("status", PublishingStatus.ERROR) *)
get_status(result) == IF "status" \in DOMAIN result THEN result.status ELSE "ERROR"

(* an absent error_message is taken for UNKNOWN *)
get_error_message_unknown(result) ==
    IF "error_message" \in DOMAIN result THEN result.error_message ELSE "UNKNOWN"

(* result.get("error_message", None) *)
get_error_message(result) ==
    IF "error_message" \in DOMAIN result THEN result.error_message ELSE None

(* container_status: the enums are looked up by name, and a name they lack is a KeyError *)
container_status(s, c, t, media_id, resp) ==
    LET tok == _access_token(c, t)
        got == IF tok.exc # "none"
               THEN Raise(tok.credentials, tok.exc, <<>>, <<>>)
               ELSE _get(s, tok.credentials,
                         build_graph_api_url(<<media_id>>,
                             [fields |-> "id,status,error_message"], tok.ret),
                         resp)
        result == got.ret
        status_str == get_status(result)
        error_str == get_error_message(result)
    IN  IF got.exc # "none"
        THEN got
        ELSE IF status_str \notin PublishingStatus
        THEN Raise(got.credentials, "KeyError", got.urls, got.requests)
        ELSE IF Truthy(error_str) /\ error_str \notin PublishingError
        THEN Raise(got.credentials, "KeyError", got.urls, got.requests)
        ELSE IF "id" \notin DOMAIN result
        THEN Raise(got.credentials, "KeyError", got.urls, got.requests)
        ELSE Return(got.credentials,
                    ContainerStatus(result.id, status_str,
                                    IF Truthy(error_str) THEN error_str ELSE None),
                    got.urls, got.requests)

(* publishes only a container the provider has FINISHED *)
publish_container_gated(s, c, t, container_id, resp) ==
    IF s = NoSession
    THEN Raise(c, "RuntimeError", <<>>, <<>>)
    ELSE LET tok == _access_token(c, t)
         IN  IF tok.exc # "none"
             THEN Raise(tok.credentials, tok.exc, <<>>, <<>>)
             ELSE IF provider[container_id] # "FINISHED"
             THEN Raise(tok.credentials, "ThreadsInvalidParameter", <<>>, <<>>)
             ELSE post_for_id(s, tok.credentials,
                      build_graph_api_url(<<c.user_id, "threads_publish">>,
                                          [creation_id |-> container_id], tok.ret),
                      resp)

publish_container(s, c, t, container_id, resp) ==
    IF s = NoSession
    THEN Raise(c, "RuntimeError", <<>>, <<>>)
    ELSE LET tok == _access_token(c, t)
         IN  IF tok.exc # "none"
             THEN Raise(tok.credentials, tok.exc, <<>>, <<>>)
             ELSE post_for_id(s, tok.credentials,
                      build_graph_api_url(<<c.user_id, "threads_publish">>,
                                          [creation_id |-> container_id], tok.ret),
                      resp)

(* __aenter__: the caller's session, or a new ClientSession that the instance manages *)
__aenter__(ext, sess) ==
    IF ext = NoSession
    THEN [session |-> Len(sess) + 1, manage_session |-> TRUE,
          sessions |-> Append(sess, [creator |-> "api", close_calls |-> 0])]
    ELSE [session |-> ext, manage_session |-> FALSE, sessions |-> sess]

(* __aexit__: close the session if the instance manages it *)
__aexit__(man, s, sess) ==
    IF man /\ s # NoSession
    THEN [sess EXCEPT ![s].close_calls = @ + 1]
    ELSE sess

(* --------------------- api.py: the unified publish -------------------- *)
(* publish(text, attachments, reply_control, reply_to_id) is called by the tests of  *)
(* the repository; its steps are those the design document and the tests give.       *)
(* A publish under way is the record publishing: where it stands (pc), its           *)
(* arguments, the requests issued so far in the order of their issue, what became    *)
(* of each child request, and the id of the container to publish.                    *)

Attachment(type, url) == [type |-> type, url |-> url]

(* only a text that is None counts as no text *)
no_content_none_only(text, attachments) == text = None /\ attachments = <<>>

(* neither a text nor an attachment *)
no_content(text, attachments) == ~Truthy(text) /\ attachments = <<>>

(* a single attachment already takes the carousel path *)
is_carousel_from_one(attachments) == Len(attachments) >= 1

(* two attachments or more take the carousel path *)
is_carousel(attachments) == Len(attachments) >= 2

(* the parameters of a create call: the five that are always sent, and the URL of
   the attachment or the children of the carousel *)
container_params(text, media_type, is_carousel_item, reply_control, reply_to_id, more) ==
    more @@ [text |-> text, media_type |-> media_type, is_carousel_item |-> is_carousel_item,
             reply_control |-> reply_control, reply_to_id |-> reply_to_id]

attachment_params(attachment) ==
    IF attachment.type = "VIDEO"
    THEN [video_url |-> attachment.url]
    ELSE [image_url |-> attachment.url]

create_request(s, c, access_token, params) ==
    Request("POST", s, build_graph_api_url(<<c.user_id, "threads">>, params, access_token))

(* the create call of one child of a carousel: no text, no reply options *)
child_request(s, c, access_token, attachment) ==
    create_request(s, c, access_token,
        container_params(None, attachment.type, TRUE, None, None, attachment_params(attachment)))

(* the create call of the direct path: the text alone, or the one attachment with it *)
single_request(s, c, access_token, text, attachments, reply_control, reply_to_id) ==
    create_request(s, c, access_token,
        IF attachments = <<>>
        THEN container_params(text, "TEXT", FALSE, reply_control, reply_to_id, <<>>)
        ELSE container_params(text, attachments[1].type, FALSE, reply_control, reply_to_id,
                              attachment_params(attachments[1])))

(* the create call of the carousel itself *)
parent_request(s, c, access_token, text, children, reply_control, reply_to_id) ==
    create_request(s, c, access_token,
        container_params(text, "CAROUSEL", FALSE, reply_control, reply_to_id,
                         [children |-> children]))

publish_request(s, c, access_token, creation_id) ==
    Request("POST", s,
            build_graph_api_url(<<c.user_id, "threads_publish">>,
                                [creation_id |-> creation_id], access_token))

Pending == [state |-> "pending", id |-> None, exc |-> "none"]

(* what an answer makes of the request it answers: the id, or the failure *)
resolved(resp) ==
    IF resp.error
    THEN [state |-> "failed", id |-> None, exc |-> "ClientError"]
    ELSE IF "id" \notin DOMAIN resp.body
    THEN [state |-> "failed", id |-> None, exc |-> "ThreadsResponseError"]
    ELSE [state |-> "done", id |-> resp.body.id, exc |-> "none"]

(* the publish goes on as soon as one child is there *)
any_resolved(children) == \E i \in DOMAIN children : children[i].state = "done"

(* the join: every child request has been answered with an id *)
all_resolved(children) == \A i \in DOMAIN children : children[i].state = "done"

(* the ids of the children, in the order of the attachments *)
children_ids(children) == [i \in DOMAIN children |-> children[i].id]

(* the start of publish: the token, the precondition, and the first requests *)
publish_start(s, c, t, text, attachments, reply_control, reply_to_id) ==
    LET tok == _access_token(c, t)
    IN  IF tok.exc # "none"
        THEN [exc |-> tok.exc, pc |-> "none", requests |-> <<>>]
        ELSE IF no_content(text, attachments)
        THEN [exc |-> "ValueError", pc |-> "none", requests |-> <<>>]
        ELSE IF is_carousel(attachments)
        THEN [exc |-> "none", pc |-> "children",
              requests |-> [i \in DOMAIN attachments |->
                               child_request(s, c, tok.ret, attachments[i])]]
        ELSE [exc |-> "none", pc |-> "container",
              requests |-> <<single_request(s, c, tok.ret, text, attachments,
                                            reply_control, reply_to_id)>>]

(* a later step of publish: the token is checked again, then the request is issued *)
publish_step(c, t, pc, request) ==
    LET tok == _access_token(c, t)
    IN  IF tok.exc # "none"
        THEN [exc |-> tok.exc, pc |-> "none", requests |-> <<>>]
        ELSE [exc |-> "none", pc |-> pc, requests |-> <<request>>]

(* ------------------------------ threads.py ---------------------------- *)

ALL_SCOPES ==
    <<"threads_basic", "threads_content_publish", "threads_manage_insights",
      "threads_manage_replies", "threads_read_replies">>

Configuration(scopes, app_id, api_secret, redirect_uri) ==
    [scopes |-> scopes, app_id |-> app_id, api_secret |-> api_secret,
     redirect_uri |-> redirect_uri]

(* an outcome of the token flow also tells the instant t at which it returned *)
RaiseAt(e, urls, reqs, t) ==
    [exc |-> e, ret |-> None, urls |-> urls, requests |-> reqs, t |-> t]

ReturnAt(v, urls, reqs, t) ==
    [exc |-> "none", ret |-> v, urls |-> urls, requests |-> reqs, t |-> t]

(* env: the process environment, a variable that is not set reads as None *)
load_configuration(scopes, app_id, api_secret, redirect_uri, env) ==
    LET a == IF Truthy(app_id) THEN app_id ELSE env.THREADS_APP_ID
        b == IF Truthy(api_secret) THEN api_secret ELSE env.THREADS_API_SECRET
        r == IF Truthy(redirect_uri) THEN redirect_uri ELSE env.THREADS_REDIRECT_URI
    IN  IF a = None \/ b = None \/ r = None
        THEN [exc |-> "ValueError", ret |-> None]
        ELSE [exc |-> "none",
              ret |-> Configuration(IF Len(scopes) = 0 THEN ALL_SCOPES ELSE scopes, a, b, r)]

(* configuration = config or Threads.load_configuration() *)
config_or_load(config, env) ==
    IF config # <<>>
    THEN [exc |-> "none", ret |-> config[1]]
    ELSE load_configuration(<<>>, None, None, None, env)

(* a response without expires_in is taken for a token that expires at once *)
handle_response_default_expiry(resp, urls, reqs, t) ==
    IF "access_token" \notin DOMAIN resp
    THEN RaiseAt("ThreadsAuthenticationError", urls, reqs, t)
    ELSE ReturnAt(<<resp.access_token,
                    t + (IF "expires_in" \in DOMAIN resp THEN resp.expires_in ELSE 0)
                        * TicksPerSecond>>, urls, reqs, t)

(* expires_in added in the unit of the clock, not in seconds *)
handle_response_unscaled(resp, urls, reqs, t) ==
    IF "access_token" \notin DOMAIN resp
    THEN RaiseAt("ThreadsAuthenticationError", urls, reqs, t)
    ELSE IF "expires_in" \notin DOMAIN resp
    THEN RaiseAt("ThreadsAuthenticationError", urls, reqs, t)
    ELSE ReturnAt(<<resp.access_token, t + resp.expires_in>>, urls, reqs, t)

__handle_long_lived_access_token_response(resp, urls, reqs, t) ==
    IF "access_token" \notin DOMAIN resp
    THEN RaiseAt("ThreadsAuthenticationError", urls, reqs, t)
    ELSE IF "expires_in" \notin DOMAIN resp
    THEN RaiseAt("ThreadsAuthenticationError", urls, reqs, t)
    ELSE ReturnAt(<<resp.access_token, t + resp.expires_in * TicksPerSecond>>, urls, reqs, t)

(* the state the callback echoes is not looked at *)
fetch_user_id_and_token_unchecked(request_url, state, config, env, t, d, resp) ==
    LET configuration == config_or_load(config, env)
        uri == build_graph_api_url(<<"oauth", "access_token">>, <<>>, None)
        req == Request("POST", NoSession, uri)
    IN  IF configuration.exc # "none"
        THEN RaiseAt(configuration.exc, <<>>, <<>>, t)
        ELSE IF resp.error
        THEN RaiseAt("ConnectionError", <<uri>>, <<req>>, t + d)
        ELSE IF "access_token" \notin DOMAIN resp.body
        THEN RaiseAt("ThreadsAuthenticationError", <<uri>>, <<req>>, t + d)
        ELSE IF "user_id" \notin DOMAIN resp.body
        THEN RaiseAt("ThreadsAuthenticationError", <<uri>>, <<req>>, t + d)
        ELSE ReturnAt(<<resp.body.user_id, resp.body.access_token,
                        (t + d) + HourSeconds * TicksPerSecond>>,
                      <<uri>>, <<req>>, t + d)

(* the code exchange: OAuth2Session.fetch_token checks the state the callback
   echoes, sends one POST, and the answer resp arrives d ticks later *)
fetch_user_id_and_token(request_url, state, config, env, t, d, resp) ==
    LET configuration == config_or_load(config, env)
        uri == build_graph_api_url(<<"oauth", "access_token">>, <<>>, None)
        req == Request("POST", NoSession, uri)
    IN  IF configuration.exc # "none"
        THEN RaiseAt(configuration.exc, <<>>, <<>>, t)
        ELSE IF request_url.state # state
        THEN RaiseAt("MismatchingStateError", <<uri>>, <<>>, t)
        ELSE IF resp.error
        THEN RaiseAt("ConnectionError", <<uri>>, <<req>>, t + d)
        ELSE IF "access_token" \notin DOMAIN resp.body
        THEN RaiseAt("ThreadsAuthenticationError", <<uri>>, <<req>>, t + d)
        ELSE IF "user_id" \notin DOMAIN resp.body
        THEN RaiseAt("ThreadsAuthenticationError", <<uri>>, <<req>>, t + d)
        ELSE ReturnAt(<<resp.body.user_id, resp.body.access_token,
                        (t + d) + HourSeconds * TicksPerSecond>>,
                      <<uri>>, <<req>>, t + d)

(* the exchange itself: the configuration, the URL, one GET, the answer d ticks later *)
exchange_token_request(access_token, config, env, t, d, resp) ==
    LET configuration == config_or_load(config, env)
        uri == build_graph_api_url(<<"access_token">>,
                   [grant_type |-> "th_exchange_token",
                    client_secret |-> configuration.ret.api_secret],
                   access_token)
        req == Request("GET", NoSession, uri)
    IN  IF configuration.exc # "none"
        THEN RaiseAt(configuration.exc, <<>>, <<>>, t)
        ELSE IF resp.error
        THEN RaiseAt("ConnectionError", <<uri>>, <<req>>, t + d)
        ELSE __handle_long_lived_access_token_response(resp.body, <<uri>>, <<req>>, t + d)

(* expiration < now instead of <= *)
fetch_long_lived_token_strict(access_token, expiration, config, env, t, d, resp) ==
    IF expiration < t
    THEN RaiseAt("ThreadsAccessTokenExpired", <<>>, <<>>, t)
    ELSE exchange_token_request(access_token, config, env, t, d, resp)

fetch_long_lived_token(access_token, expiration, config, env, t, d, resp) ==
    IF expiration <= t
    THEN RaiseAt("ThreadsAccessTokenExpired", <<>>, <<>>, t)
    ELSE exchange_token_request(access_token, config, env, t, d, resp)

(* the refresh itself: the URL, one GET, the answer d ticks later *)
refresh_token_request(c, t, d, resp) ==
    LET uri == build_graph_api_url(<<"refresh_access_token">>,
                   [grant_type |-> "th_refresh_token"], c.access_token)
        req == Request("GET", NoSession, uri)
    IN  IF resp.error
        THEN RaiseAt("ConnectionError", <<uri>>, <<req>>, t + d)
        ELSE __handle_long_lived_access_token_response(resp.body, <<uri>>, <<req>>, t + d)

(* the two checks in the other order *)
refresh_expiry_first(c, t, d, resp) ==
    (IF c.expiration <= t
     THEN RaiseAt("ThreadsAccessTokenExpired", <<>>, <<>>, t)
     ELSE IF c.short_lived
     THEN RaiseAt("TypeError", <<>>, <<>>, t)
     ELSE refresh_token_request(c, t, d, resp))
    @@ [credentials |-> c]

(* the record passed in takes the refreshed token *)
refresh_in_place(c, t, d, resp) ==
    LET out == IF c.short_lived
               THEN RaiseAt("TypeError", <<>>, <<>>, t)
               ELSE IF c.expiration <= t
               THEN RaiseAt("ThreadsAccessTokenExpired", <<>>, <<>>, t)
               ELSE refresh_token_request(c, t, d, resp)
    IN  out @@ [credentials |-> IF out.exc = "none"
                                THEN [c EXCEPT !.access_token = out.ret[1],
                                               !.expiration = out.ret[2]]
                                ELSE c]

(* returns the pair (access_token, expiration); the record c is only read *)
refresh_long_lived_token(c, t, d, resp) ==
    (IF c.short_lived
     THEN RaiseAt("TypeError", <<>>, <<>>, t)
     ELSE IF c.expiration <= t
     THEN RaiseAt("ThreadsAccessTokenExpired", <<>>, <<>>, t)
     ELSE refresh_token_request(c, t, d, resp))
    @@ [credentials |-> c]

(* the long-lived token taken, the flag left as it was *)
long_lived_credentials_keeps_flag(creds, token) ==
    [creds EXCEPT !.access_token = token[1], !.expiration = token[2]]

(* credentials.short_lived = False; .access_token = ...; .expiration = ... *)
long_lived_credentials(creds, token) ==
    [creds EXCEPT !.short_lived = FALSE, !.access_token = token[1], !.expiration = token[2]]

(* the short-lived record is returned when the long-lived exchange fails *)
complete_authorization_fallback(callback_url, state, long_lived_token, config, env, t, d1, resp1, g, d2, resp2) ==
    LET configuration == config_or_load(config, env)
        first == fetch_user_id_and_token(callback_url, state, <<configuration.ret>>, env,
                                         t, d1, resp1)
        call1 == [fn |-> "fetch_user_id_and_token", exc |-> first.exc, ret |-> first.ret]
        creds == Credentials(first.ret[1], configuration.ret.scopes, TRUE,
                             first.ret[2], first.ret[3])
        second == fetch_long_lived_token(creds.access_token, creds.expiration,
                                         <<configuration.ret>>, env, first.t + g, d2, resp2)
        call2 == [fn |-> "fetch_long_lived_token", exc |-> second.exc, ret |-> second.ret]
        urls == first.urls \o second.urls
        reqs == first.requests \o second.requests
    IN  IF configuration.exc # "none"
        THEN RaiseAt(configuration.exc, <<>>, <<>>, t) @@ [calls |-> <<>>]
        ELSE IF first.exc # "none"
        THEN first @@ [calls |-> <<call1>>]
        ELSE IF ~long_lived_token
        THEN ReturnAt(creds, first.urls, first.requests, first.t) @@ [calls |-> <<call1>>]
        ELSE IF second.exc # "none"
        THEN ReturnAt(creds, urls, reqs, second.t) @@ [calls |-> <<call1, call2>>]
        ELSE ReturnAt(long_lived_credentials(creds, second.ret), urls, reqs, second.t)
             @@ [calls |-> <<call1, call2>>]

(* calls: the exchanges complete_authorization made, in order, with what each gave;
   g is the time that passes between the two exchanges *)
complete_authorization(callback_url, state, long_lived_token, config, env, t, d1, resp1, g, d2, resp2) ==
    LET configuration == config_or_load(config, env)
        first == fetch_user_id_and_token(callback_url, state, <<configuration.ret>>, env,
                                         t, d1, resp1)
        call1 == [fn |-> "fetch_user_id_and_token", exc |-> first.exc, ret |-> first.ret]
        creds == Credentials(first.ret[1], configuration.ret.scopes, TRUE,
                             first.ret[2], first.ret[3])
        second == fetch_long_lived_token(creds.access_token, creds.expiration,
                                         <<configuration.ret>>, env, first.t + g, d2, resp2)
        call2 == [fn |-> "fetch_long_lived_token", exc |-> second.exc, ret |-> second.ret]
        urls == first.urls \o second.urls
        reqs == first.requests \o second.requests
    IN  IF configuration.exc # "none"
        THEN RaiseAt(configuration.exc, <<>>, <<>>, t) @@ [calls |-> <<>>]
        ELSE IF first.exc # "none"
        THEN first @@ [calls |-> <<call1>>]
        ELSE IF ~long_lived_token
        THEN ReturnAt(creds, first.urls, first.requests, first.t) @@ [calls |-> <<call1>>]
        ELSE IF second.exc # "none"
        THEN RaiseAt(second.exc, urls, reqs, second.t) @@ [calls |-> <<call1, call2>>]
        ELSE ReturnAt(long_lived_credentials(creds, second.ret), urls, reqs, second.t)
             @@ [calls |-> <<call1, call2>>]

(* ------------------------------ the state ----------------------------- *)

Scopes == <<"threads_basic", "threads_content_publish">>

InitCredentials ==
    { Credentials("someuserid", Scopes, sl, "tok0", e) :
        sl \in BOOLEAN, e \in 1..MaxExpiration }

NoCall == [op |-> "none", args |-> <<>>, now |-> 0, session |-> NoSession,
           before |-> <<>>, exc |-> "none", ret |-> None, urls |-> <<>>, requests |-> <<>>,
           returned_at |-> 0, calls |-> <<>>, response |-> <<>>]

(* the containers the provider holds for the user; each starts IN_PROGRESS, and
   the caller holds no ContainerStatus of it until container_status returned one *)
ContainerIds == {"c1", "c2"}

(* no publish is under way *)
NotPublishing == [pc |-> "none"]

(* API(credentials, session): with the caller's session, or with none *)
Init ==
    /\ now = 0
    /\ credentials \in InitCredentials
    /\ \/ /\ external_session = NoSession
          /\ sessions = <<>>
       \/ /\ external_session = 1
          /\ sessions = <<[creator |-> "caller", close_calls |-> 0]>>
    /\ session = external_session
    /\ manage_session = FALSE
    /\ contexts = <<>>
    /\ last = NoCall
    /\ publishing = NotPublishing
    /\ provider = [id \in ContainerIds |-> "IN_PROGRESS"]
    /\ snapshots = [id \in ContainerIds |-> <<>>]

(* Between two calls the caller holds no outcome: last = NoCall.  A call leaves
   its record in last, and Returned hands the outcome to the caller. *)
Idle == last.op = "none"

Returned ==
    /\ ~Idle
    /\ last' = NoCall
    /\ UNCHANGED <<now, credentials, external_session, session, manage_session, sessions, contexts, publishing, provider, snapshots>>

Tick ==
    /\ Idle
    /\ now < MaxTime
    /\ now' = now + 1
    /\ UNCHANGED <<credentials, external_session, session, manage_session, sessions, contexts, last, publishing, provider, snapshots>>

(* the record of a call: what was asked, when, on which session, and the outcome *)
Outcome(op, args, out) ==
    [op |-> op, args |-> args, now |-> now, session |-> session,
     before |-> credentials, exc |-> out.exc, ret |-> out.ret,
     urls |-> out.urls, requests |-> out.requests,
     returned_at |-> now, calls |-> <<>>,
     response |-> IF "response" \in DOMAIN out THEN out.response ELSE <<>>]

Call(op, args, out) ==
    /\ Idle
    /\ last' = Outcome(op, args, out)
    /\ credentials' = out.credentials
    /\ UNCHANGED <<now, external_session, session, manage_session, sessions, contexts, publishing, provider, snapshots>>

(* `async with api:` entered; a context records the session its entry created *)
AEnter ==
    /\ Idle
    /\ Len(contexts) < MaxDepth
    /\ external_session = NoSession => Len(sessions) < MaxSessions
    /\ LET e == __aenter__(external_session, sessions)
       IN  /\ session' = e.session
           /\ manage_session' = e.manage_session
           /\ sessions' = e.sessions
           /\ contexts' = Append(contexts, IF e.manage_session THEN e.session ELSE NoSession)
    /\ UNCHANGED <<now, credentials, external_session, last, publishing, provider, snapshots>>

(* the innermost `async with api:` left, normally or by an exception *)
AExit ==
    /\ Idle
    /\ contexts # <<>>
    /\ sessions' = __aexit__(manage_session, session, sessions)
    /\ contexts' = SubSeq(contexts, 1, Len(contexts) - 1)
    /\ UNCHANGED <<now, credentials, external_session, session, manage_session, last, publishing, provider, snapshots>>

(* what the transport and the provider may answer *)
(* a closed session refuses every call made on it *)
Refused == [error |-> TRUE, body |-> <<>>, refused |-> TRUE]

Transport(responses) ==
    IF session # NoSession /\ sessions[session].close_calls > 0
    THEN {Refused}
    ELSE responses

GetResponses == {[error |-> TRUE, body |-> <<>>], [error |-> FALSE, body |-> [data |-> "d"]]}

PostResponses ==
    {[error |-> TRUE, body |-> <<>>],
     [error |-> FALSE, body |-> [id |-> "id9"]],
     [error |-> FALSE, body |-> [error |-> "e"]]}

StatusResponses ==
    {[error |-> TRUE, body |-> <<>>]} \cup
    { [error |-> FALSE,
       body |-> Opt(i, [id |-> "c1"]) @@ Opt(st # None, [status |-> st])
                @@ Opt(em # None, [error_message |-> em])] :
        i \in BOOLEAN,
        st \in {None, "FINISHED", "IN_PROGRESS", "ERROR", "BOGUS"},
        em \in {None, "", "UNKNOWN", "BOGUS"} }

Texts == {None, "", "Some text"}

Medias == {<<>>, <<Media("IMAGE", "u1")>>, <<Media("VIDEO", "u2")>>, <<Media("CAROUSEL", "u3")>>}

(* n containers, all FINISHED but for the one at position p (none when p = 0) *)
Containers(n, p, st) ==
    [i \in 1..n |-> ContainerStatus(i, IF i = p THEN st ELSE "FINISHED", None)]

ContainerLists ==
    UNION { { Containers(n, p, st) : p \in 0..n, st \in PublishingStatus \ {"FINISHED"} } :
            n \in 0..MaxContainers }

(* a call that reached the network is recorded with the response it got *)
CallR(op, args, resp, out) ==
    Call(op, args @@ [responses |-> IF out.requests = <<>> THEN <<>> ELSE <<resp>>], out)

Account ==
    \E user_id \in {"me"}, resp \in Transport(GetResponses) :
        CallR("account", [user_id |-> user_id], resp,
              account(session, credentials, now, user_id, resp))

UserInsights ==
    \E m1 \in {"views", "follower_demographics", "bogus"}, m2 \in {None, "likes", "bogus"},
       since \in {<<>>, <<3>>}, breakdown \in {None, "", "age", "bogus"}, resp \in Transport(GetResponses) :
        LET metrics == IF m2 = None THEN <<m1>> ELSE <<m1, m2>>
        IN  CallR("user_insights",
                  [metrics |-> metrics, since |-> since, until |-> since, breakdown |-> breakdown],
                  resp,
                  user_insights(session, credentials, now, metrics, since, since, breakdown, resp))

PublishingLimit ==
    \E resp \in Transport(GetResponses) :
        CallR("publishing_limit", <<>>, resp, publishing_limit(session, credentials, now, resp))

CreateContainer ==
    \E text \in Texts, media \in Medias, reply_to_id \in {None, "t1"},
       is_carousel_item \in BOOLEAN, resp \in Transport(PostResponses) :
        CallR("create_container",
              [text |-> text, media |-> media, reply_control |-> "everyone",
               reply_to_id |-> reply_to_id, is_carousel_item |-> is_carousel_item],
              resp,
              create_container(session, credentials, now, text, media, "everyone",
                               reply_to_id, is_carousel_item, resp))

(* a few of them: too few, too many, the least and the most allowed *)
SomeContainerLists ==
    { Containers(n, p, "IN_PROGRESS") : n \in {1, MinCarousel, MaxCarousel, MaxContainers},
                                        p \in {0, 1} }

CreateCarouselContainerOf(lists) ==
    \E containers \in lists, text \in {None, "Some text"}, resp \in Transport(PostResponses) :
        CallR("create_carousel_container",
              [containers |-> containers, text |-> text, reply_control |-> "everyone",
               reply_to_id |-> None],
              resp,
              create_carousel_container(session, credentials, now, containers, text,
                                        "everyone", None, resp))

CreateCarouselContainer == CreateCarouselContainerOf(ContainerLists)

CreateSomeCarouselContainer == CreateCarouselContainerOf(SomeContainerLists)

ContainerStatusCall ==
    \E resp \in Transport(StatusResponses) :
        CallR("container_status", [media_id |-> "c1"], resp,
              container_status(session, credentials, now, "c1", resp))

PublishContainer ==
    \E resp \in Transport(PostResponses) :
        CallR("publish_container", [container_id |-> "c1"], resp,
              publish_container(session, credentials, now, "c1", resp))

Container ==
    \E resp \in Transport(GetResponses) :
        CallR("container", [container_id |-> "c1"], resp,
              container(session, credentials, now, "c1", resp))

Thread ==
    \E resp \in Transport(GetResponses) :
        CallR("thread", [thread_id |-> "t1"], resp,
              thread(session, credentials, now, "t1", resp))

ThreadsCall ==
    \E since \in {None, "2024-06-01"}, limit \in {<<>>, <<0>>, <<25>>},
       after \in {None, "cursor"}, resp \in Transport(GetResponses) :
        CallR("threads",
              [since |-> since, until |-> None, limit |-> limit, before |-> None, after |-> after],
              resp,
              threads(session, credentials, now, since, None, limit, None, after, resp))

Replies ==
    \E resp \in Transport(GetResponses) :
        CallR("replies", [thread_id |-> "t1"], resp,
              replies(session, credentials, now, "t1", resp))

Conversation ==
    \E before \in {None, "cursor"}, resp \in Transport(GetResponses) :
        CallR("conversation", [thread_id |-> "t1", before |-> before, after |-> None], resp,
              conversation(session, credentials, now, "t1", before, None, resp))

ManageReply ==
    \E hide \in BOOLEAN, resp \in Transport(PostResponses) :
        CallR("manage_reply", [reply_id |-> "r1", hide |-> hide], resp,
              manage_reply(session, credentials, now, "r1", hide, resp))

Insights ==
    \E resp \in Transport(GetResponses) :
        CallR("insights", [thread_id |-> "t1"], resp,
              insights(session, credentials, now, "t1", resp))

(* ---- the unified publish, step by step ---- *)

(* n attachments, an image and a video in turn, each with its own URL *)
Attachments(n) ==
    [i \in 1..n |-> Attachment(IF i % 2 = 1 THEN "IMAGE" ELSE "VIDEO", ToString(i))]

AttachmentLists == {Attachments(n) : n \in 0..MaxAttachments}

PublishOptions ==
    {[reply_control |-> None, reply_to_id |-> None],
     [reply_control |-> "accounts_you_follow", reply_to_id |-> "9999"]}

(* the k-th answer of the provider: no answer, an object with a new id, or one without *)
Answers(k) ==
    {[error |-> TRUE, body |-> <<>>],
     [error |-> FALSE, body |-> [id |-> ToString(k)]],
     [error |-> FALSE, body |-> [error |-> "e"]]}

Publishing == publishing.pc # "none"

(* publish ends: the outcome goes to the caller *)
PublishEnds(args, before, started, requests, children, exc, ret, response) ==
    /\ last' = [op |-> "publish", args |-> args @@ [responses |-> <<>>], now |-> started,
                session |-> session, before |-> before, exc |-> exc, ret |-> ret,
                urls |-> [i \in DOMAIN requests |-> requests[i].url],
                requests |-> requests, returned_at |-> now, calls |-> children,
                response |-> response]
    /\ publishing' = NotPublishing

PublishFinished(exc, ret, response) ==
    PublishEnds(publishing.args, publishing.before, publishing.now, publishing.requests,
                publishing.children, exc, ret, response)

PublishCall ==
    /\ Idle
    /\ ~Publishing
    /\ \E text \in Texts, attachments \in AttachmentLists, o \in PublishOptions :
          LET args == [text |-> text, attachments |-> attachments,
                       reply_control |-> o.reply_control, reply_to_id |-> o.reply_to_id]
              out == publish_start(session, credentials, now, text, attachments,
                                   o.reply_control, o.reply_to_id)
          IN  IF out.exc # "none"
              THEN PublishEnds(args, credentials, now, <<>>, <<>>, out.exc, None, <<>>)
              ELSE /\ publishing' =
                        [pc |-> out.pc, args |-> args, now |-> now, before |-> credentials,
                         requests |-> out.requests,
                         children |-> IF out.pc = "children"
                                      THEN [i \in DOMAIN attachments |-> Pending]
                                      ELSE <<>>,
                         answered |-> 0, container_id |-> None]
                   /\ UNCHANGED last
    /\ UNCHANGED <<now, credentials, external_session, session, manage_session, sessions, contexts, provider, snapshots>>

(* one of the child requests is answered, whichever *)
ChildResolved ==
    /\ Idle
    /\ publishing.pc = "children"
    /\ \E i \in DOMAIN publishing.children, resp \in Answers(publishing.answered + 1) :
          /\ publishing.children[i].state = "pending"
          /\ publishing' = [publishing EXCEPT !.children[i] = resolved(resp),
                                              !.answered = @ + 1]
    /\ UNCHANGED <<now, credentials, external_session, session, manage_session, sessions, contexts, last, provider, snapshots>>

(* a child request failed: publish fails with its failure *)
PublishFailed ==
    /\ Idle
    /\ publishing.pc = "children"
    /\ \E i \in DOMAIN publishing.children :
          /\ publishing.children[i].state = "failed"
          /\ PublishFinished(publishing.children[i].exc, None, <<>>)
    /\ UNCHANGED <<now, credentials, external_session, session, manage_session, sessions, contexts, provider, snapshots>>

(* past the join: the carousel is created from the ids of its children *)
ChildrenJoined ==
    /\ Idle
    /\ publishing.pc = "children"
    /\ all_resolved(publishing.children)
    /\ LET a == publishing.args
           step == publish_step(credentials, now, "container",
                       parent_request(session, credentials, credentials.access_token, a.text,
                                      children_ids(publishing.children),
                                      a.reply_control, a.reply_to_id))
       IN  IF step.exc # "none"
           THEN PublishFinished(step.exc, None, <<>>)
           ELSE /\ publishing' = [publishing EXCEPT !.pc = step.pc,
                                                    !.requests = @ \o step.requests]
                /\ UNCHANGED last
    /\ UNCHANGED <<now, credentials, external_session, session, manage_session, sessions, contexts, provider, snapshots>>

(* the create call of the container to publish is answered: the publish call follows *)
ContainerResolved ==
    /\ Idle
    /\ publishing.pc = "container"
    /\ \E resp \in Answers(publishing.answered + 1) :
          LET r == resolved(resp)
              step == publish_step(credentials, now, "publish",
                          publish_request(session, credentials, credentials.access_token, r.id))
          IN  IF r.state = "failed"
              THEN PublishFinished(r.exc, None,
                                   IF r.exc = "ThreadsResponseError" THEN resp.body ELSE <<>>)
              ELSE IF step.exc # "none"
              THEN PublishFinished(step.exc, None, <<>>)
              ELSE /\ publishing' = [publishing EXCEPT !.pc = step.pc,
                                                       !.requests = @ \o step.requests,
                                                       !.answered = @ + 1,
                                                       !.container_id = r.id]
                   /\ UNCHANGED last
    /\ UNCHANGED <<now, credentials, external_session, session, manage_session, sessions, contexts, provider, snapshots>>

(* the publish call is answered: its response is the result *)
PublishResolved ==
    /\ Idle
    /\ publishing.pc = "publish"
    /\ \E resp \in Answers(publishing.answered + 1) :
          LET r == resolved(resp)
          IN  IF r.state = "failed"
              THEN PublishFinished(r.exc, None,
                                   IF r.exc = "ThreadsResponseError" THEN resp.body ELSE <<>>)
              ELSE PublishFinished("none", resp.body, <<>>)
    /\ UNCHANGED <<now, credentials, external_session, session, manage_session, sessions, contexts, provider, snapshots>>

(* ---- the credential record: serialization and expiry ---- *)

(* records a caller may have stored *)
StoredRecords ==
    { Credentials("someuserid", sc, sl, "tok0", e) :
        sc \in {<<>>, Scopes}, sl \in BOOLEAN, e \in 0..(MaxExpiration + 1) }

(* what a caller may hand to from_json: a record as to_json wrote it, or one that
   lost its expiration *)
JsonInputs ==
    {to_json(c) : c \in StoredRecords}
    \cup {[user_id |-> "someuserid", scopes |-> Scopes, short_lived |-> FALSE,
           access_token |-> "tok0"]}

ToJson ==
    Call("to_json", <<>>, Return(credentials, to_json(credentials), <<>>, <<>>))

FromJson ==
    \E json_str \in JsonInputs :
        LET out == from_json(json_str)
        IN  Call("from_json", [json_str |-> json_str],
                 IF out.exc = "none"
                 THEN Return(credentials, out.ret, <<>>, <<>>)
                 ELSE Raise(credentials, out.exc, <<>>, <<>>))

ExpiresIn ==
    Call("expires_in", <<>>, Return(credentials, expires_in(credentials, now), <<>>, <<>>))

Expired ==
    Call("expired", <<>>, Return(credentials, expired(credentials, now), <<>>, <<>>))

(* ---- the token flow: inputs ---- *)

SomeConfiguration ==
    Configuration(<<"threads_basic">>, "app_id", "api_secret", "https://threads-meta.local")

FullEnv == [THREADS_APP_ID |-> "envapp", THREADS_API_SECRET |-> "envsecret",
            THREADS_REDIRECT_URI |-> "https://env.local"]

(* a configuration passed in, or left to an environment that has or lacks a variable *)
ConfigInputs ==
    {[config |-> <<SomeConfiguration>>, env |-> [FullEnv EXCEPT !.THREADS_API_SECRET = None]],
     [config |-> <<>>, env |-> FullEnv],
     [config |-> <<>>, env |-> [FullEnv EXCEPT !.THREADS_APP_ID = None]]}

Elapsed == 0..MaxElapsed

(* the time of the short-lived token, in ticks *)
HourTicks == HourSeconds * TicksPerSecond

(* between the two exchanges of complete_authorization: no time, or the process
   was suspended for as long as the short-lived token lives *)
Gaps == {0, HourTicks}

CodeResponses ==
    {[error |-> TRUE, body |-> <<>>],
     [error |-> FALSE, body |-> [access_token |-> "tokS", user_id |-> "u7"]],
     [error |-> FALSE, body |-> [user_id |-> "u7"]],
     [error |-> FALSE, body |-> [access_token |-> "tokS"]]}

TokenResponses ==
    {[error |-> TRUE, body |-> <<>>],
     [error |-> FALSE, body |-> [access_token |-> "tokL", expires_in |-> 5184000]],
     [error |-> FALSE, body |-> [access_token |-> "tok0", expires_in |-> 1]],
     [error |-> FALSE, body |-> [expires_in |-> 5184000]],
     [error |-> FALSE, body |-> [access_token |-> "tokL"]]}

(* a call of the token flow: the clock moves to the instant the call returned, which
   is within MaxTime unless the process was suspended on the way *)
CallAt(op, args, resps, out, c) ==
    /\ Idle
    /\ now <= MaxTime
    /\ (out.t <= MaxTime \/ out.t - now >= HourTicks)
    /\ last' = [op |-> op,
                args |-> args @@ [responses |-> SubSeq(resps, 1, Len(out.requests))],
                now |-> now, session |-> session, before |-> credentials,
                exc |-> out.exc, ret |-> out.ret, urls |-> out.urls,
                requests |-> out.requests, returned_at |-> out.t,
                calls |-> IF "calls" \in DOMAIN out THEN out.calls ELSE <<>>,
                response |-> <<>>]
    /\ now' = out.t
    /\ credentials' = c
    /\ UNCHANGED <<external_session, session, manage_session, sessions, contexts, publishing, provider, snapshots>>

FetchLongLivedToken ==
    \E expiration \in 0..(MaxExpiration + 1), ce \in ConfigInputs, d \in Elapsed,
       resp \in TokenResponses :
        CallAt("fetch_long_lived_token",
               [access_token |-> "tokS", expiration |-> expiration,
                config |-> ce.config, env |-> ce.env, d |-> d],
               <<resp>>,
               fetch_long_lived_token("tokS", expiration, ce.config, ce.env, now, d, resp),
               credentials)

RefreshLongLivedToken ==
    \E d \in Elapsed, resp \in TokenResponses :
        LET out == refresh_long_lived_token(credentials, now, d, resp)
        IN  CallAt("refresh_long_lived_token", [d |-> d], <<resp>>, out, out.credentials)

CompleteAuthorization ==
    \E echoed \in {"state1", "forged"}, long_lived_token \in BOOLEAN, ce \in ConfigInputs,
       d1 \in Elapsed, resp1 \in CodeResponses, g \in Gaps, d2 \in Elapsed,
       resp2 \in TokenResponses :
        CallAt("complete_authorization",
               [callback_url |-> [code |-> "code1", state |-> echoed], state |-> "state1",
                long_lived_token |-> long_lived_token, config |-> ce.config, env |-> ce.env,
                d1 |-> d1, g |-> g, d2 |-> d2],
               <<resp1, resp2>>,
               complete_authorization([code |-> "code1", state |-> echoed], "state1",
                                      long_lived_token, ce.config, ce.env, now,
                                      d1, resp1, g, d2, resp2),
               credentials)

(* ------------------ the containers at the provider ------------------- *)

(* a container is processed, then published or left to expire *)
ProviderSuccessors(status) ==
    CASE status = "IN_PROGRESS" -> {"FINISHED", "ERROR"}
      [] status = "FINISHED" -> {"PUBLISHED", "EXPIRED"}
      [] OTHER -> {}

ProviderStep ==
    /\ Idle
    /\ \E id \in ContainerIds : \E status \in ProviderSuccessors(provider[id]) :
           provider' = [provider EXCEPT ![id] = status]
    /\ UNCHANGED <<now, credentials, external_session, session, manage_session, sessions,
                   contexts, last, publishing, snapshots>>

(* what the provider answers to a GET of the status of container id *)
ProviderStatusResponses(id) ==
    {[error |-> TRUE, body |-> <<>>],
     [error |-> FALSE,
      body |-> Opt(provider[id] = "ERROR", [error_message |-> "UNKNOWN"])
               @@ [id |-> id, status |-> provider[id]]]}

(* status = await api.container_status(id): the caller keeps the ContainerStatus *)
PollContainer ==
    \E id \in ContainerIds : \E resp \in Transport(ProviderStatusResponses(id)) :
        LET out == container_status(session, credentials, now, id, resp)
        IN  /\ Idle
            /\ last' = Outcome("container_status",
                                [media_id |-> id,
                                 responses |-> IF out.requests = <<>> THEN <<>> ELSE <<resp>>],
                                out)
            /\ credentials' = out.credentials
            /\ snapshots' = IF out.exc = "none"
                             THEN [snapshots EXCEPT ![id] = <<out.ret>>]
                             ELSE snapshots
            /\ UNCHANGED <<now, external_session, session, manage_session, sessions,
                           contexts, publishing, provider>>

(* the ContainerStatus values a caller can pass for container id: the one it got
   from container_status, or one it builds itself *)
Held(id) ==
    {ContainerStatus(id, "FINISHED", None)}
    \cup (IF snapshots[id] = <<>> THEN {} ELSE {snapshots[id][1]})

CreateCarouselOfHeld ==
    \E c1 \in Held("c1"), c2 \in Held("c2"), resp \in Transport(PostResponses) :
        CallR("create_carousel_container",
              [containers |-> <<c1, c2>>, text |-> None, reply_control |-> "everyone",
               reply_to_id |-> None],
              resp,
              create_carousel_container(session, credentials, now, <<c1, c2>>, None,
                                        "everyone", None, resp))

PublishAnyContainer ==
    \E id \in ContainerIds, resp \in Transport(PostResponses) :
        CallR("publish_container", [container_id |-> id], resp,
              publish_container(session, credentials, now, id, resp))

Next ==
    \/ ProviderStep
    \/ PollContainer
    \/ CreateCarouselOfHeld
    \/ PublishAnyContainer
    \/ Tick
    \/ Returned
    \/ FetchLongLivedToken
    \/ RefreshLongLivedToken
    \/ CompleteAuthorization
    \/ AEnter
    \/ AExit
    \/ Account
    \/ UserInsights
    \/ PublishingLimit
    \/ CreateContainer
    \/ CreateCarouselContainer
    \/ ContainerStatusCall
    \/ PublishContainer
    \/ Container
    \/ Thread
    \/ ThreadsCall
    \/ Replies
    \/ Conversation
    \/ ManageReply
    \/ Insights
    \/ ToJson
    \/ FromJson
    \/ ExpiresIn
    \/ Expired
    \/ PublishCall
    \/ ChildResolved
    \/ PublishFailed
    \/ ChildrenJoined
    \/ ContainerResolved
    \/ PublishResolved

Spec == Init /\ [][Next]_vars

(* the unified publish alone *)
NextPublish ==
    \/ Tick
    \/ Returned
    \/ PublishCall
    \/ ChildResolved
    \/ PublishFailed
    \/ ChildrenJoined
    \/ ContainerResolved
    \/ PublishResolved

SpecPublish == Init /\ [][NextPublish]_vars

(* the credential record alone *)
NextCredentials ==
    \/ Tick
    \/ Returned
    \/ ToJson
    \/ FromJson
    \/ ExpiresIn
    \/ Expired

SpecCredentials == Init /\ [][NextCredentials]_vars

(* the token flow *)
NextAuth ==
    \/ Tick
    \/ Returned
    \/ FetchLongLivedToken
    \/ RefreshLongLivedToken
    \/ CompleteAuthorization

SpecAuth == Init /\ [][NextAuth]_vars

(* the containers at the provider and the calls made about them *)
NextProvider ==
    \/ Tick
    \/ Returned
    \/ AEnter
    \/ ProviderStep
    \/ PollContainer
    \/ CreateCarouselOfHeld
    \/ PublishAnyContainer

SpecProvider == Init /\ [][NextProvider]_vars

(* the session's life alone *)
NextSession ==
    \/ Tick
    \/ Returned
    \/ AEnter
    \/ AExit
    \/ ThreadsCall
    \/ PublishContainer

SpecSession == Init /\ [][NextSession]_vars

(* the facade's fourteen operations, the carousel on a few lists *)
NextFacade ==
    \/ Tick
    \/ Returned
    \/ AEnter
    \/ AExit
    \/ Account
    \/ UserInsights
    \/ PublishingLimit
    \/ CreateContainer
    \/ CreateSomeCarouselContainer
    \/ ContainerStatusCall
    \/ PublishContainer
    \/ Container
    \/ Thread
    \/ ThreadsCall
    \/ Replies
    \/ Conversation
    \/ ManageReply
    \/ Insights

SpecFacade == Init /\ [][NextFacade]_vars

(* the carousel on every list *)
NextCarousel ==
    \/ Tick
    \/ Returned
    \/ AEnter
    \/ CreateCarouselContainer

SpecCarousel == Init /\ [][NextCarousel]_vars

(* ------------------------------ the claims ---------------------------- *)

ApiOps ==
    {"account", "user_insights", "publishing_limit", "create_container",
     "create_carousel_container", "container_status", "publish_container", "container",
     "thread", "threads", "replies", "conversation", "manage_reply", "insights"}

(* the credentials of the call in last were expired when it was made *)
CalledExpired == expired(last.before, last.now)

(* C1: every operation of the facade called with expired credentials fails with
   ThreadsAccessTokenExpired and issues no request, whatever its other arguments
   and whether or not the instance has a session. *)
C1_ExpiredShortCircuit ==
    (last.op \in ApiOps /\ CalledExpired)
        => (last.exc = "ThreadsAccessTokenExpired" /\ last.requests = <<>>)

InContext(i) == \E k \in DOMAIN contexts : contexts[k] = i

(* C2: the caller's session is the one every request uses and is never closed by the
   instance; a session the instance created in __aenter__ is open while its context
   is, and has been closed exactly once when that context has exited. *)
C2_OnlyCloseWhatWeOpened ==
    /\ \A i \in DOMAIN sessions :
          sessions[i].creator = "caller" => sessions[i].close_calls = 0
    /\ (last.op \in ApiOps /\ external_session # NoSession)
          => \A k \in DOMAIN last.requests : last.requests[k].session = external_session
    /\ \A i \in DOMAIN sessions :
          sessions[i].creator = "api"
              => sessions[i].close_calls = (IF InContext(i) THEN 0 ELSE 1)

AllFinished(containers) == \A i \in DOMAIN containers : containers[i].status = "FINISHED"

(* C3: with unexpired credentials and a session, create_carousel_container fails with
   ThreadsInvalidParameter and no request when fewer than 2 or more than 10 containers
   are given, and with 2 to 10 containers, all FINISHED, it issues exactly one POST. *)
C3_CarouselCountBounds ==
    (last.op = "create_carousel_container" /\ ~CalledExpired /\ last.session # NoSession)
        => LET n == Len(last.args.containers)
           IN  /\ (n < 2 \/ n > 10)
                     => (last.exc = "ThreadsInvalidParameter" /\ last.requests = <<>>)
               /\ (n >= 2 /\ n <= 10 /\ AllFinished(last.args.containers))
                     => (Len(last.requests) = 1 /\ last.requests[1].method = "POST")

C3_Witness ==
    /\ last.op = "create_carousel_container"
    /\ Len(last.args.containers) = 10
    /\ AllFinished(last.args.containers)
    /\ Len(last.requests) = 1
    /\ last.exc = "none"

(* C4: when some container given to create_carousel_container is not FINISHED, no
   request is issued, however many containers there are and wherever the offending
   one stands; the call that got as far as its arguments (a session, unexpired
   credentials) fails with ThreadsInvalidParameter. *)
C4_CarouselReadinessGate ==
    (last.op = "create_carousel_container" /\ ~AllFinished(last.args.containers))
        => /\ last.requests = <<>>
           /\ last.exc # "none"
           /\ (~CalledExpired /\ last.session # NoSession)
                 => last.exc = "ThreadsInvalidParameter"

C4_Witness ==
    /\ last.op = "create_carousel_container"
    /\ Len(last.args.containers) = 5
    /\ last.args.containers[1].status = "FINISHED"
    /\ last.args.containers[5].status = "EXPIRED"
    /\ last.exc = "ThreadsInvalidParameter"
    /\ last.requests = <<>>

(* C5: create_container with neither a text (None or empty) nor a media fails before
   any request: no POST is sent for a container that has neither. *)
C5_NoContentNoPost ==
    (last.op = "create_container" /\ ~Truthy(last.args.text) /\ last.args.media = <<>>)
        => (last.exc # "none" /\ last.requests = <<>>)

(* C6: refresh_long_lived_token on a short-lived record fails with TypeError and
   issues no request, also when the record has expired as well. *)
C6_RefreshRejectsShortLived ==
    (last.op = "refresh_long_lived_token" /\ last.before.short_lived)
        => (last.exc = "TypeError" /\ last.requests = <<>> /\ last.urls = <<>>)

C6_Witness ==
    /\ last.op = "refresh_long_lived_token"
    /\ last.before.short_lived
    /\ last.before.expiration <= last.now
    /\ last.exc = "TypeError"

(* the configuration was passed in, or the environment has all three variables *)
HasConfiguration(args) ==
    args.config # <<>> \/ \A k \in DOMAIN args.env : args.env[k] # None

ExpiredNoRequest == last.exc = "ThreadsAccessTokenExpired" /\ last.urls = <<>> /\ last.requests = <<>>

OneGet == Len(last.requests) = 1 /\ last.requests[1].method = "GET"

(* C7: fetch_long_lived_token, and refresh_long_lived_token on a long-lived record,
   fail with ThreadsAccessTokenExpired, building no URL and issuing no request, when
   the expiration is at or before the current instant; when it is strictly after
   (and a configuration is to be had) they issue exactly one GET. *)
C7_ExpiryBeforeExchange ==
    /\ last.op = "fetch_long_lived_token"
          => /\ last.args.expiration <= last.now => ExpiredNoRequest
             /\ (last.args.expiration > last.now /\ HasConfiguration(last.args)) => OneGet
    /\ (last.op = "refresh_long_lived_token" /\ ~last.before.short_lived)
          => /\ last.before.expiration <= last.now => ExpiredNoRequest
             /\ last.before.expiration > last.now => OneGet

C7_Witness ==
    /\ last.op = "fetch_long_lived_token"
    /\ last.now > 0
    /\ last.args.expiration = last.now
    /\ ExpiredNoRequest

(* C8: the record complete_authorization returns tells the stage reached.  Without
   long_lived_token it is short-lived, carries the token and expiration of the code
   exchange, and the long-lived exchange was not made; with it the long-lived
   exchange was made exactly once after the code exchange, the record is long-lived
   and carries the token and expiration of that exchange; user_id and scopes are
   those of the code exchange and the configuration. *)
C8_StageReached ==
    (last.op = "complete_authorization" /\ last.exc = "none")
        => LET a == last.args
               code == last.calls[1]
               exchanges == {k \in DOMAIN last.calls :
                                last.calls[k].fn = "fetch_long_lived_token"}
           IN  /\ code.fn = "fetch_user_id_and_token"
               /\ last.ret.user_id = a.responses[1].body.user_id
               /\ last.ret.scopes = (IF a.config # <<>> THEN a.config[1].scopes ELSE ALL_SCOPES)
               /\ ~a.long_lived_token
                     => /\ last.ret.short_lived = TRUE
                        /\ last.ret.access_token = a.responses[1].body.access_token
                        /\ last.ret.expiration = code.ret[3]
                        /\ exchanges = {}
                        /\ Len(last.requests) = 1
               /\ a.long_lived_token
                     => /\ last.ret.short_lived = FALSE
                        /\ exchanges = {2}
                        /\ Len(last.requests) = 2
                        /\ last.ret.access_token = a.responses[2].body.access_token
                        /\ last.ret.access_token = last.calls[2].ret[1]
                        /\ last.ret.expiration = last.calls[2].ret[2]

C8_Witness ==
    /\ last.op = "complete_authorization"
    /\ last.exc = "none"
    /\ last.args.long_lived_token
    /\ last.ret.short_lived = FALSE
    /\ last.ret.access_token = "tokL"

(* C9 as claimed: after a refresh that succeeded the record passed in holds the
   refreshed token and expiration. *)
C9_RefreshMutatesRecord ==
    (last.op = "refresh_long_lived_token" /\ last.exc = "none")
        => (credentials.access_token = last.ret[1] /\ credentials.expiration = last.ret[2])

(* C9 amended: a refresh that succeeded returns the pair of the refreshed token and
   its expiration, and leaves the record passed in as it was. *)
C9_RefreshReturnsPair ==
    (last.op = "refresh_long_lived_token" /\ last.exc = "none")
        => LET body == last.args.responses[1].body
           IN  /\ last.ret = <<body.access_token,
                               last.returned_at + body.expires_in * TicksPerSecond>>
               /\ credentials = last.before

C9_Witness ==
    /\ last.op = "refresh_long_lived_token"
    /\ last.exc = "none"
    /\ last.ret[1] = "tokL"
    /\ credentials.access_token = "tok0"

(* C10: no operation of the facade changes a field of the credential record,
   whether it succeeds or fails. *)
C10_CredentialsUntouched ==
    last.op \in ApiOps => credentials = last.before

C10_Witness ==
    /\ last.op = "publish_container"
    /\ last.exc = "none"
    /\ credentials = last.before

CredentialKeys == {"user_id", "scopes", "short_lived", "access_token", "expiration"}

(* C11: a record written by to_json and read back by from_json is the record that
   was written, field for field and to the exact instant of its expiration, and
   what to_json writes is an object with exactly the five keys of the record. *)
C11_RoundTrip ==
    /\ last.op = "to_json"
          => /\ DOMAIN last.ret = CredentialKeys
             /\ \A k \in CredentialKeys \ {"expiration"} : last.ret[k] = last.before[k]
             /\ from_json(last.ret) = [exc |-> "none", ret |-> last.before]
    /\ last.op = "from_json"
          => \A c \in StoredRecords :
                last.args.json_str = to_json(c) => (last.exc = "none" /\ last.ret = c)

C11_Witness ==
    /\ last.op = "from_json"
    /\ last.exc = "none"
    /\ last.args.json_str.expiration.fraction # 0
    /\ last.ret.expiration % TicksPerSecond # 0
    /\ last.ret.scopes = Scopes

(* C12: expires_in() is the time left to the expiration in whole seconds, cut
   toward zero and never negative, and expired() is true exactly when that is 0:
   a record at its expiration, or with less than a second left, is expired. *)
C12_ExpiryBoundary ==
    LET delta == last.before.expiration - last.now
    IN  /\ last.op = "expires_in"
              => /\ last.ret >= 0
                 /\ delta <= 0 => last.ret = 0
                 /\ delta > 0 => /\ last.ret * TicksPerSecond <= delta
                                 /\ delta < (last.ret + 1) * TicksPerSecond
        /\ last.op = "expired"
              => /\ last.ret = (expires_in(last.before, last.now) = 0)
                 /\ last.ret = (delta < TicksPerSecond)

C12_Witness ==
    /\ last.op = "expired"
    /\ last.before.expiration > last.now
    /\ last.before.expiration - last.now < TicksPerSecond
    /\ last.ret = TRUE

(* the call in last reached the provider and got its answer *)
GotResponse == last.args.responses # <<>> /\ ~last.args.responses[1].error

UnknownStatus(body) == "status" \in DOMAIN body /\ body.status \notin PublishingStatus

UnknownError(body) ==
    /\ "error_message" \in DOMAIN body
    /\ Truthy(body.error_message)
    /\ body.error_message \notin PublishingError

(* C13: when the provider's answer to container_status carries a status, or a
   non-empty error_message, that the enumerations do not know, the call fails with
   a lookup error and returns no ContainerStatus. *)
C13_UnknownStateFailsLoudly ==
    (last.op = "container_status" /\ GotResponse)
        => LET body == last.args.responses[1].body
           IN  /\ (UnknownStatus(body) \/ UnknownError(body))
                     => (last.exc = "KeyError" /\ last.ret = None)
               /\ last.exc = "none"
                     => /\ last.ret.status \in PublishingStatus
                        /\ "status" \in DOMAIN body => last.ret.status = body.status
                        /\ last.ret.error # None => last.ret.error = body.error_message

C13_Witness ==
    /\ last.op = "container_status"
    /\ GotResponse
    /\ "status" \in DOMAIN last.args.responses[1].body
    /\ last.args.responses[1].body.status = "FINISHED"
    /\ UnknownError(last.args.responses[1].body)
    /\ last.exc = "KeyError"

(* what C14 says container_status returns for the answer body *)
StatusOrError(body) ==
    IF "status" \in DOMAIN body /\ ~UnknownStatus(body) THEN body.status ELSE "ERROR"

ErrorIfAny(body) ==
    IF "error_message" \in DOMAIN body /\ Truthy(body.error_message)
    THEN body.error_message
    ELSE None

(* C14 as claimed: for an answer with an id and an error_message that is absent,
   empty or known, container_status returns the status of the answer, ERROR when
   the status is unrecognized or absent, and sets error only for a non-empty
   error_message. *)
C14_UnrecognizedStatusIsError ==
    (last.op = "container_status" /\ GotResponse)
        => LET body == last.args.responses[1].body
           IN  ("id" \in DOMAIN body /\ ~UnknownError(body))
                  => /\ last.exc = "none"
                     /\ last.ret = ContainerStatus(body.id, StatusOrError(body), ErrorIfAny(body))

(* C14 amended: the same for an answer whose status is known or absent: the status
   returned is that of the answer, ERROR when it is absent, and error is set only
   for a non-empty error_message. *)
C14_AbsentStatusIsError ==
    (last.op = "container_status" /\ GotResponse)
        => LET body == last.args.responses[1].body
           IN  ("id" \in DOMAIN body /\ ~UnknownError(body) /\ ~UnknownStatus(body))
                  => /\ last.exc = "none"
                     /\ last.ret = ContainerStatus(body.id, StatusOrError(body), ErrorIfAny(body))
                     /\ "status" \notin DOMAIN body => last.ret.status = "ERROR"
                     /\ ("error_message" \notin DOMAIN body \/ body.error_message = "")
                           => last.ret.error = None

C14_Witness ==
    /\ last.op = "container_status"
    /\ GotResponse
    /\ "status" \notin DOMAIN last.args.responses[1].body
    /\ "error_message" \notin DOMAIN last.args.responses[1].body
    /\ last.exc = "none"
    /\ last.ret.status = "ERROR"
    /\ last.ret.error = None

PostForIdOps == {"create_container", "create_carousel_container", "publish_container"}

(* C15: when the POST of create_container, create_carousel_container or
   publish_container got its answer, an answer without the key id makes the call
   fail with ThreadsResponseError carrying that answer, an answer with it makes the
   call return that id, and either way exactly one request, the POST, was issued. *)
C15_IdOrResponseError ==
    (last.op \in PostForIdOps /\ GotResponse)
        => LET body == last.args.responses[1].body
           IN  /\ Len(last.requests) = 1
               /\ last.requests[1].method = "POST"
               /\ "id" \notin DOMAIN body
                     => (last.exc = "ThreadsResponseError" /\ last.response = body
                         /\ last.ret = None)
               /\ "id" \in DOMAIN body => (last.exc = "none" /\ last.ret = body.id)

C15_Witness ==
    /\ last.op = "create_carousel_container"
    /\ GotResponse
    /\ last.exc = "ThreadsResponseError"
    /\ last.response = [error |-> "e"]

Elements(seq) == {seq[i] : i \in DOMAIN seq}

(* C16: user_insights with unexpired credentials fails with ThreadsInvalidParameter,
   and no request, exactly when a requested metric is not a known one, or
   follower_demographics is requested without a breakdown that is one of age, city,
   country and gender; otherwise, on an instance with a session, it issues one GET
   whose metric parameter is the metrics requested and whose breakdown parameter is
   the breakdown given (none for a breakdown that is None or empty). *)
C16_UserInsightsValidation ==
    (last.op = "user_insights" /\ ~CalledExpired)
        => LET a == last.args
               invalid == \/ Elements(a.metrics) \ USER_METRIC_TYPES # {}
                          \/ /\ "follower_demographics" \in Elements(a.metrics)
                             /\ a.breakdown \notin {"age", "city", "country", "gender"}
           IN  /\ invalid <=> last.exc = "ThreadsInvalidParameter"
               /\ invalid => (last.requests = <<>> /\ last.urls = <<>>)
               /\ (~invalid /\ last.session # NoSession)
                     => /\ Len(last.requests) = 1
                        /\ last.requests[1].method = "GET"
                        /\ last.requests[1].url.query.metric = a.metrics
                        /\ Truthy(a.breakdown)
                              => last.requests[1].url.query.breakdown = a.breakdown
                        /\ ~Truthy(a.breakdown)
                              => "breakdown" \notin DOMAIN last.requests[1].url.query

C16_Witness ==
    /\ last.op = "user_insights"
    /\ last.args.metrics = <<"follower_demographics", "likes">>
    /\ Len(last.requests) = 1
    /\ last.requests[1].url.query.breakdown = "age"
    /\ last.exc = "none"

(* the parameters of the i-th request of the publish in last, and its path *)
Query(i) == last.requests[i].url.query

Path(i) == last.requests[i].url.path

IsCreate(i) == last.requests[i].method = "POST" /\ Path(i) = <<last.before.user_id, "threads">>

IsPublish(i, id) ==
    /\ last.requests[i].method = "POST"
    /\ Path(i) = <<last.before.user_id, "threads_publish">>
    /\ Query(i).creation_id = id

(* the requests of a publish that succeeded with n attachments, total of them in all *)
PublishDispatch(n, total) ==
    LET a == last.args
    IN  /\ n = 0
              => /\ Len(last.requests) = 2
                 /\ IsCreate(1)
                 /\ Query(1).media_type = "TEXT"
                 /\ Query(1).text = a.text
                 /\ Query(1).is_carousel_item = FALSE
                 /\ IsPublish(2, "1")
        /\ n = 1
              => /\ Len(last.requests) = 2
                 /\ IsCreate(1)
                 /\ Query(1).media_type = a.attachments[1].type
                 /\ Query(1).is_carousel_item = FALSE
                 /\ IsPublish(2, "1")
        /\ n >= 2
              => /\ Len(last.requests) = total
                 /\ \A i \in 1..n :
                       /\ IsCreate(i)
                       /\ Query(i).media_type = a.attachments[i].type
                       /\ Query(i).is_carousel_item = TRUE
                       /\ Query(i).text = None
                       /\ Query(i).reply_control = None
                       /\ Query(i).reply_to_id = None
                       /\ "children" \notin DOMAIN Query(i)
                 /\ \A i \in 1..n : \A j \in 1..n : i # j => last.calls[i].id # last.calls[j].id
                 /\ IsCreate(n + 1)
                 /\ Query(n + 1).media_type = "CAROUSEL"
                 /\ Query(n + 1).children = [i \in 1..n |-> last.calls[i].id]
                 /\ Query(n + 1).text = a.text
                 /\ Query(n + 1).reply_control = a.reply_control
                 /\ Query(n + 1).reply_to_id = a.reply_to_id
                 /\ IsPublish(n + 2, ToString(n + 1))

(* the child requests of a carousel are all issued before any of them is answered *)
ChildrenIssuedTogether ==
    (publishing.pc = "children" /\ publishing.answered = 0)
        => Len(publishing.requests) = Len(publishing.args.attachments)

(* C17 as claimed: a publish that succeeds issues one create call and one publish
   call for a text alone or a single attachment, and for two attachments two
   concurrent create calls of carousel items, the create call of the carousel with
   the ids of the two in the order of the attachments, and the publish call: five
   network calls in all. *)
C17_PublishDispatchFiveCalls ==
    /\ ChildrenIssuedTogether
    /\ (last.op = "publish" /\ last.exc = "none")
          => PublishDispatch(Len(last.args.attachments),
                             IF Len(last.args.attachments) = 2
                             THEN 5
                             ELSE Len(last.args.attachments) + 2)

(* C17 amended: the same, the two attachments making four network calls in all
   (n attachments, n + 2). *)
C17_PublishDispatch ==
    /\ ChildrenIssuedTogether
    /\ (last.op = "publish" /\ last.exc = "none")
          => PublishDispatch(Len(last.args.attachments), Len(last.args.attachments) + 2)

C17_Witness ==
    /\ last.op = "publish"
    /\ last.exc = "none"
    /\ Len(last.args.attachments) = 2
    /\ Len(last.requests) = 4
    /\ Query(3).children = <<"2", "1">>
    /\ Query(3).text = "Some text"
    /\ last.ret = [id |-> "4"]

CarouselArgs(args) == Len(args.attachments) >= 2

(* C18: in the carousel path the create call of the carousel and the publish call
   are issued only when every child request has been answered with an id, in
   whatever order the answers come; and when a child request has failed the publish
   fails: no create call of the carousel, no publish call, no result. *)
C18_JoinBarrier ==
    /\ (Publishing /\ CarouselArgs(publishing.args))
          => (Len(publishing.requests) > Len(publishing.args.attachments)
                 => \A i \in DOMAIN publishing.children :
                       publishing.children[i].state = "done")
    /\ (last.op = "publish" /\ CarouselArgs(last.args))
          => /\ Len(last.requests) > Len(last.args.attachments)
                   => \A i \in DOMAIN last.calls : last.calls[i].state = "done"
             /\ (\E i \in DOMAIN last.calls : last.calls[i].state = "failed")
                   => /\ last.exc \in {"ClientError", "ThreadsResponseError"}
                      /\ last.ret = None
                      /\ Len(last.requests) = Len(last.args.attachments)

C18_Witness ==
    /\ last.op = "publish"
    /\ Len(last.args.attachments) = 3
    /\ Len(last.calls) = 3
    /\ last.calls[2].state = "done"
    /\ last.calls[2].id = "1"
    /\ last.calls[1].state = "done"
    /\ last.calls[3].state = "failed"
    /\ last.exc # "none"
    /\ Len(last.requests) = 3

NoContent(args) == ~Truthy(args.text) /\ args.attachments = <<>>

(* C19: publish with no text (None or empty) and no attachment, on unexpired
   credentials, fails with ValueError before any request is issued. *)
C19_PublishNeedsContent ==
    /\ Publishing => ~NoContent(publishing.args)
    /\ (last.op = "publish" /\ ~CalledExpired /\ NoContent(last.args))
          => (last.exc = "ValueError" /\ last.requests = <<>> /\ last.urls = <<>>)

C19_Witness ==
    /\ last.op = "publish"
    /\ ~CalledExpired
    /\ last.args.text = ""
    /\ last.args.attachments = <<>>
    /\ last.exc = "ValueError"
    /\ last.requests = <<>>

OpenCreated == {i \in DOMAIN sessions : sessions[i].creator = "api" /\ sessions[i].close_calls = 0}

(* C20: an instance constructed without a session has at most one session of its
   own making open at any time, and when all its contexts have exited every
   session it made has been closed, however entries and exits follow one another. *)
C20_NoLeakedSession ==
    external_session = NoSession
        => /\ Cardinality(OpenCreated) <= 1
           /\ contexts = <<>> => OpenCreated = {}

(* C21: complete_authorization on a callback whose state is not the state expected
   (a configuration being there) fails in the code exchange with the state error of
   the OAuth2 library: no request is sent, no record is returned, and the
   long-lived exchange is not called. *)
C21_StateMismatchIsFatal ==
    (last.op = "complete_authorization" /\ HasConfiguration(last.args)
     /\ last.args.callback_url.state # last.args.state)
        => /\ last.exc = "MismatchingStateError"
           /\ last.ret = None
           /\ last.requests = <<>>
           /\ Len(last.calls) = 1
           /\ last.calls[1].fn = "fetch_user_id_and_token"
           /\ last.calls[1].exc = "MismatchingStateError"

C21_Witness ==
    /\ last.op = "complete_authorization"
    /\ last.args.long_lived_token
    /\ last.args.callback_url.state = "forged"
    /\ last.exc = "MismatchingStateError"
    /\ last.requests = <<>>

(* the k-th request of the call in last was answered, and the answer lacks key1 or key2 *)
Malformed(k, key1, key2) ==
    /\ Len(last.args.responses) >= k
    /\ ~last.args.responses[k].error
    /\ (key1 \notin DOMAIN last.args.responses[k].body
        \/ key2 \notin DOMAIN last.args.responses[k].body)

(* C22: an exchange whose answer lacks an expected key (access_token or user_id for
   the code exchange, access_token or expires_in for the long-lived exchange and
   the refresh) fails with ThreadsAuthenticationError, returns no token, and has
   sent its one request and no other. *)
C22_MalformedResponse ==
    /\ (last.op \in {"fetch_long_lived_token", "refresh_long_lived_token"}
        /\ Malformed(1, "access_token", "expires_in"))
          => (last.exc = "ThreadsAuthenticationError" /\ last.ret = None
              /\ Len(last.requests) = 1)
    /\ (last.op = "complete_authorization" /\ Malformed(1, "access_token", "user_id"))
          => (last.exc = "ThreadsAuthenticationError" /\ last.ret = None
              /\ Len(last.requests) = 1 /\ Len(last.calls) = 1)
    /\ (last.op = "complete_authorization" /\ Malformed(2, "access_token", "expires_in"))
          => (last.exc = "ThreadsAuthenticationError" /\ last.ret = None
              /\ Len(last.requests) = 2 /\ Len(last.calls) = 2)

C22_Witness ==
    /\ last.op = "complete_authorization"
    /\ Malformed(2, "access_token", "expires_in")
    /\ "access_token" \in DOMAIN last.args.responses[2].body
    /\ last.exc = "ThreadsAuthenticationError"

(* the k-th request of the call in last was answered with a token and its expires_in *)
TokenGiven(k) ==
    /\ Len(last.args.responses) >= k
    /\ ~last.args.responses[k].error
    /\ ~Malformed(k, "access_token", "expires_in")

(* C25: a long-lived exchange or a refresh that succeeds returns the token of the
   answer and, as expiration, the instant at which the answer was handled plus the
   expires_in seconds of the answer, whatever the expiration passed in. *)
C25_ExpirationFromResponse ==
    /\ (last.op \in {"fetch_long_lived_token", "refresh_long_lived_token"}
        /\ last.exc = "none")
          => /\ TokenGiven(1)
             /\ last.ret[1] = last.args.responses[1].body.access_token
             /\ last.ret[2] = last.returned_at
                                + last.args.responses[1].body.expires_in * TicksPerSecond
    /\ (last.op = "complete_authorization" /\ last.exc = "none"
        /\ last.args.long_lived_token)
          => /\ TokenGiven(2)
             /\ last.ret.access_token = last.args.responses[2].body.access_token
             /\ last.ret.expiration = last.returned_at
                                       + last.args.responses[2].body.expires_in * TicksPerSecond

C25_Witness ==
    /\ last.op = "fetch_long_lived_token"
    /\ last.exc = "none"
    /\ last.args.d > 0
    /\ last.args.responses[1].body.expires_in = 1
    /\ last.ret[2] = last.now + last.args.d + TicksPerSecond
    /\ last.ret[2] # last.args.expiration

(* C26: for a long-lived record, refresh_long_lived_token fails with
   ThreadsAccessTokenExpired exactly when expired() is true of the record at that
   instant, and sends no refresh request for a record expired() calls expired. *)
C26_ExpiryChecksAgree ==
    (last.op = "refresh_long_lived_token" /\ ~last.before.short_lived)
        => /\ (last.exc = "ThreadsAccessTokenExpired") <=> expired(last.before, last.now)
           /\ expired(last.before, last.now) => last.requests = <<>>

(* C30: when complete_authorization, asked for a long-lived token, has got the
   short-lived one and the long-lived exchange then fails (the token has expired
   meanwhile, the answer is malformed, or the transport fails) the failure goes to
   the caller: no record is returned, not the short-lived one either, and no
   request follows the failure. *)
C30_NoFallbackCredential ==
    (last.op = "complete_authorization" /\ last.args.long_lived_token
     /\ Len(last.calls) = 2 /\ last.calls[2].exc # "none")
        => /\ last.calls[1].exc = "none"
           /\ last.exc = last.calls[2].exc
           /\ last.exc \in {"ThreadsAccessTokenExpired", "ThreadsAuthenticationError",
                             "ConnectionError"}
           /\ last.ret = None
           /\ Len(last.requests) = (IF last.exc = "ThreadsAccessTokenExpired" THEN 1 ELSE 2)
           /\ credentials = last.before

C30_Witness ==
    /\ last.op = "complete_authorization"
    /\ last.args.long_lived_token
    /\ Len(last.calls) = 2
    /\ last.calls[1].exc = "none"
    /\ last.exc = "ThreadsAccessTokenExpired"
    /\ Len(last.requests) = 1

(* C23: every request create_container issues carries as media_type the type of the
   media when one is given (an image or a video) and TEXT when none is; image_url
   exactly for an image and video_url exactly for a video; and never the
   media_type CAROUSEL nor the parameter children. *)
C23_MediaTypeParameter ==
    (last.op = "create_container" /\ last.requests # <<>>)
        => LET media == last.args.media
               q == last.requests[1].url.query
               image == media # <<>> /\ media[1].type = "IMAGE"
               video == media # <<>> /\ media[1].type = "VIDEO"
           IN  /\ (media = <<>> \/ image \/ video)
                     => /\ "media_type" \in DOMAIN q
                        /\ q.media_type = (IF media = <<>> THEN "TEXT" ELSE media[1].type)
               /\ "image_url" \in DOMAIN q <=> image
               /\ "video_url" \in DOMAIN q <=> video
               /\ "media_type" \in DOMAIN q => q.media_type # "CAROUSEL"
               /\ "children" \notin DOMAIN q

(* C24: a ContainerStatus that container_status returns has its error set only
   when its status is ERROR. *)
C24_ErrorOnlyWithErrorStatus ==
    (last.op = "container_status" /\ last.exc = "none")
        => (last.ret.error # None => last.ret.status = "ERROR")

(* C29: once every context of an instance that created its own session has
   exited, an operation of the instance issues no request on the closed session:
   it fails with the RuntimeError of the missing session, or earlier on its
   credentials or arguments. *)
SessionClosedByInstance ==
    /\ contexts = <<>>
    /\ last.session # NoSession
    /\ sessions[last.session].creator = "api"
    /\ sessions[last.session].close_calls > 0

C29_NoRequestOnClosedSession ==
    (last.op \in ApiOps /\ SessionClosedByInstance)
        => /\ last.requests = <<>>
           /\ last.exc \in {"RuntimeError", "ThreadsAccessTokenExpired", "ValueError"}

(* C27 as stated: whenever create_carousel_container issues its POST, every
   container named in the children parameter is FINISHED at the provider. *)
Children == last.requests[1].url.query.children

CarouselPosted == last.op = "create_carousel_container" /\ last.requests # <<>>

C27_ChildrenFinishedAtProvider ==
    CarouselPosted => \A i \in DOMAIN Children : provider[Children[i]] = "FINISHED"

(* C27 amended: whenever create_carousel_container issues its POST, every
   ContainerStatus it was given says FINISHED and the children parameter names
   the ids of those values in their order; the gate reads the values passed to
   it, not the provider. *)
C27_GateReadsWhatItIsGiven ==
    CarouselPosted
        => /\ Len(Children) = Len(last.args.containers)
           /\ \A i \in DOMAIN last.args.containers :
                  /\ last.args.containers[i].status = "FINISHED"
                  /\ Children[i] = last.args.containers[i].id

(* the POST went out naming a child that the caller polled as FINISHED and
   that has expired at the provider since *)
C27_Witness ==
    /\ CarouselPosted
    /\ \E id \in ContainerIds :
          /\ provider[id] = "EXPIRED"
          /\ snapshots[id] # <<>>
          /\ snapshots[id][1].status = "FINISHED"
          /\ \E i \in DOMAIN last.args.containers : last.args.containers[i] = snapshots[id][1]

(* C28: with a session and unexpired credentials publish_container issues exactly
   one POST, to <user>/threads_publish with creation_id the id it was given,
   whatever the container's status at the provider and whether or not
   container_status was ever called for it. *)
C28_PublishIsNotGated ==
    (/\ last.op = "publish_container"
     /\ last.session # NoSession
     /\ ~expired(last.before, last.now))
        => /\ Len(last.requests) = 1
           /\ last.requests[1].method = "POST"
           /\ last.requests[1].url.path = <<last.before.user_id, "threads_publish">>
           /\ last.requests[1].url.query.creation_id = last.args.container_id

(* a container that expired and was never polled is sent for publishing *)
C28_Witness ==
    /\ last.op = "publish_container"
    /\ last.requests # <<>>
    /\ last.exc = "none"
    /\ last.args.container_id \in ContainerIds
    /\ provider[last.args.container_id] = "EXPIRED"
    /\ snapshots[last.args.container_id] = <<>>

====
